---- MODULE Spec2Model ----
(***************************************************************************)
(* Rating aggregation and scoring engine of the Reyting dashboard.         *)
(*                                                                         *)
(* The engine lives in SQL scripts that are run against one PostgreSQL     *)
(* database.  Each script is one transaction (BEGIN ... COMMIT) and is     *)
(* modelled as one atomic action.  The state is the content of the tables  *)
(* dim_indicator (criteria catalog), fact_indicator (observations),        *)
(* fact_penalty and fact_summary (aggregates).                             *)
(*                                                                         *)
(* Numbers: the score columns are DECIMAL(5,2) / DECIMAL(6,2).  A value is *)
(* held as an integer number of hundredths (5.00 is 500, 0.6 is 60).       *)
(* Strings: Cyrillic literals of the scripts are written transliterated.   *)
(***************************************************************************)
EXTENDS Integers, Sequences, FiniteSets, TLC

VARIABLES
    dim_indicator,    \* code -> [rating_type, is_penalty]   (rows of dim_indicator)
    has_rating_cols,  \* do the columns rating_type / is_penalty exist
    map_scale,        \* codes that map_scale rows reference (foreign key)
    fact_indicator,   \* <<mo, period, code, version>> -> [value_raw, score]
    fact_penalty,     \* set of rows of fact_penalty
    fact_summary,     \* <<mo, period, version>> -> aggregate row
    lastOp,           \* the script that committed last ("other": one that
                      \* writes neither fact_summary nor repairs anything)
    again,            \* ghost: the script before it was the same script
    imports,          \* number of rows the import collaborator has written
    healed,           \* ghost: codes whose classification the last run set
    backfilled,       \* ghost: observation keys whose score the last repair set
    zscore,           \* zone classifier: the score_total it is applied to
    zlabels,          \* zone classifier: what each implementation returned
    heap,             \* concurrent runs: the row versions of fact_summary,
                      \* <<key, inserting transaction>> -> [row, xmax]
    sess,             \* concurrent runs: driver -> its position in the script
    seen,             \* concurrent runs: what a reader's last SELECT returned
    RatingPage,       \* pages: state of the RatingPage component and its prop
    RatingTable,      \* pages: state of the RatingTable component
    network,          \* pages: the requests in flight
    issued            \* pages: number of requests issued so far

vars == <<dim_indicator, has_rating_cols, map_scale, fact_indicator,
          fact_penalty, fact_summary, lastOp, again, imports, healed,
          backfilled, zscore, zlabels, heap, sess, seen, RatingPage,
          RatingTable, network, issued>>

\* the state of the pages
UiVars == <<RatingPage, RatingTable, network, issued>>

(***************************************************************************)
(* Bounds of the model.                                                    *)
(***************************************************************************)
MaxImports == 1

\* the zone classifier is applied to every score_total from -ZoneBelow to
\* ZoneMax score units, in steps of one hundredth
ZoneBelow == 100
ZoneMax == 200

(***************************************************************************)
(* SQL values.                                                             *)
(***************************************************************************)
NULL == <<>>
Some(v) == <<v>>
Val(x) == x[1]

\* COALESCE(x, d)
Coalesce(x, d) == IF x = NULL THEN d ELSE Val(x)

\* GREATEST(a, b)
Greatest(a, b) == IF a >= b THEN a ELSE b

\* one unit of the score scale, in hundredths
Unit == 100

\* ROUND(x, 0) of a numeric held in hundredths: half away from zero
Round0(x) ==
    IF x >= 0 THEN ((x + 50) \div Unit) * Unit
    ELSE -(((-x + 50) \div Unit) * Unit)

RECURSIVE SumOver(_, _)
\* SUM(f) over a set of rows whose term f[r] is never NULL
SumOver(S, f) ==
    IF S = {} THEN 0
    ELSE LET r == CHOOSE x \in S : TRUE
         IN f[r] + SumOver(S \ {r}, f)

\* SQL SUM(expr): NULL over no rows, else the sum of the non-NULL terms
SqlSum(S, f) ==
    LET nn == {r \in S : f[r] # NULL}
    IN IF nn = {} THEN NULL
       ELSE Some(SumOver(nn, [r \in nn |-> Val(f[r])]))

(***************************************************************************)
(* Reference data: dim_mo, dim_period, dim_methodology.                    *)
(***************************************************************************)
\* sample rows of dim_mo: mo_id -> mo_name
dim_mo == (1 :> "Lipeck") @@ (4 :> "Gryazinskij") @@ (21 :> "Gorod N")
Mo == DOMAIN dim_mo

\* dim_period: period 1 is 2024-01, period 2 is the current month
Period2024_01 == 1
PeriodCurrentMonth == 2
Periods == {Period2024_01, PeriodCurrentMonth}

\* dim_methodology: version_id 1 is 'v1.0', version_id 2 is '2.0'
VersionV1_0 == 1
Version2_0 == 2
Versions == {VersionV1_0, Version2_0}

(***************************************************************************)
(* Criterion codes, held as sequences of characters so that LIKE can be    *)
(* computed.                                                               *)
(***************************************************************************)
pub_1    == <<"p","u","b","_","1">>
closed_1 == <<"c","l","o","s","e","d","_","1">>
pen_1    == <<"p","e","n","_","1">>
pm_01    == <<"p","m","_","0","1">>
code_1   == <<"1">>
code_14  == <<"1","4">>
POP      == <<"P","O","P">>

\* rating_type values 'PUBLICHNYJ' and 'ZAKRYTYJ' (Cyrillic in the source)
PUBLICHNYJ == "PUBLICHNYJ"
ZAKRYTYJ == "ZAKRYTYJ"

\* code LIKE '<lit>_%': the literal, then any one character, then anything
\* the pattern cut down to its first letter: code LIKE 'p%'
LikeFirstLetter(code, lit) == Len(code) >= 1 /\ code[1] = lit[1]

LikeUnderscoreAny(code, lit) ==
    /\ Len(code) >= Len(lit) + 1
    /\ SubSeq(code, 1, Len(lit)) = lit

\* a row a script inserts without naming rating_type / is_penalty
DefaultRow == [rating_type |-> NULL, is_penalty |-> FALSE]

\* does a fact_indicator or map_scale row reference the criterion
Referenced(c) ==
    \/ \E k \in DOMAIN fact_indicator : k[3] = c
    \/ c \in map_scale

\* INSERT INTO dim_indicator ... ON CONFLICT (code) DO NOTHING
\* INSERT ... ON CONFLICT (code) DO UPDATE that resets the classification of
\* a row that exists
InsertIndicatorsResetting(di, rows) ==
    [c \in DOMAIN di \cup DOMAIN rows |->
        IF c \in DOMAIN di THEN DefaultRow ELSE rows[c]]

InsertIndicators(di, rows) ==
    [c \in DOMAIN di \cup DOMAIN rows |->
        IF c \in DOMAIN di THEN di[c] ELSE rows[c]]

(***************************************************************************)
(* Init: schema created, reference data loaded, no criteria, no facts.     *)
(***************************************************************************)
InitTables ==
    /\ dim_indicator = <<>>
    /\ has_rating_cols = FALSE
    /\ map_scale = {}
    /\ fact_indicator = <<>>
    /\ fact_penalty = {}
    /\ fact_summary = <<>>
    /\ lastOp = "other"
    /\ again = FALSE
    /\ imports = 0
    /\ healed = {}
    /\ backfilled = {}

\* no concurrent drivers: the scripts run one after the other
TxIdle ==
    /\ heap = <<>>
    /\ sess = <<>>
    /\ seen = {}

\* no page is open
UiIdle ==
    /\ RatingPage = <<>>
    /\ RatingTable = <<>>
    /\ network = {}
    /\ issued = 0

Init ==
    /\ InitTables
    /\ UiIdle
    /\ zscore = 0
    /\ zlabels = NULL
    /\ TxIdle

\* bookkeeping of a committed script: its name and what it repaired
Committed(op, h, b) ==
    /\ lastOp' = op
    /\ again' = (op # "other" /\ lastOp = op)
    /\ healed' = h
    /\ backfilled' = b
    /\ UNCHANGED <<zscore, zlabels, heap, sess, seen>>
    /\ UNCHANGED UiVars

\* a transaction whose statement failed: COMMIT rolls everything back
\* (op: "other", or the name under which the failed run is remembered)
RolledBack(op) ==
    /\ Committed(op, {}, {})
    /\ UNCHANGED <<dim_indicator, has_rating_cols, map_scale, fact_indicator,
                   fact_penalty, fact_summary, imports>>

(***************************************************************************)
(* create_criteria_blocks.sql                                              *)
(***************************************************************************)
CriteriaBlockRows == (pm_01 :> DefaultRow)

CreateCriteriaBlocks ==
    /\ dim_indicator' = InsertIndicators(dim_indicator, CriteriaBlockRows)
    /\ Committed("other", {}, {})
    /\ UNCHANGED <<has_rating_cols, map_scale, fact_indicator, fact_penalty,
                   fact_summary, imports>>

(***************************************************************************)
(* implement_official_methodology.sql                                      *)
(***************************************************************************)
OfficialRows ==
    (pub_1 :> [rating_type |-> Some(PUBLICHNYJ), is_penalty |-> FALSE]) @@
    (closed_1 :> [rating_type |-> Some(ZAKRYTYJ), is_penalty |-> FALSE]) @@
    (pen_1 :> [rating_type |-> NULL, is_penalty |-> TRUE])

OfficialCodes == DOMAIN OfficialRows

ImplementOfficialMethodology ==
    LET old == {c \in DOMAIN dim_indicator : c \notin OfficialCodes}
        kept == [c \in DOMAIN dim_indicator \ old |-> dim_indicator[c]]
    IN IF \E c \in old : Referenced(c)
       THEN RolledBack("implement_official_methodology")   \* Step 4 violates a foreign key
       ELSE /\ dim_indicator' = InsertIndicators(kept, OfficialRows)
            /\ has_rating_cols' = TRUE
            /\ Committed("implement_official_methodology", {}, {})
            /\ UNCHANGED <<map_scale, fact_indicator, fact_penalty,
                           fact_summary, imports>>

(***************************************************************************)
(* fix_dim_indicator_columns.sql: the table is recreated without the       *)
(* columns rating_type, is_penalty and max_points.                         *)
(***************************************************************************)
FixDimIndicatorColumns ==
    /\ dim_indicator' = [c \in DOMAIN dim_indicator |-> DefaultRow]
    /\ has_rating_cols' = FALSE
    /\ Committed("other", {}, {})
    /\ UNCHANGED <<map_scale, fact_indicator, fact_penalty, fact_summary,
                   imports>>

(***************************************************************************)
(* Import collaborator (the backend's upload route): upserts observations  *)
(* on the composite key; the criterion code must resolve in the catalog.   *)
(* value_raw is DECIMAL(15,4), held in thousandths (the fourth decimal is   *)
(* not represented); score is DECIMAL(5,2), held in hundredths.            *)
(***************************************************************************)
RawUnit == 1000

\* the rows the model lets the import write: municipality, period, version,
\* value_raw, score
ImportSamples ==
    { [mo |-> 4, period |-> Period2024_01, version |-> VersionV1_0,
       value_raw |-> NULL, score |-> NULL],
      [mo |-> 4, period |-> Period2024_01, version |-> VersionV1_0,
       value_raw |-> Some(29 * RawUnit), score |-> NULL],
      [mo |-> 4, period |-> Period2024_01, version |-> VersionV1_0,
       value_raw |-> Some(1000 * RawUnit), score |-> NULL],
      [mo |-> 4, period |-> Period2024_01, version |-> VersionV1_0,
       value_raw |-> NULL, score |-> Some(-8 * Unit)],
      [mo |-> 4, period |-> Period2024_01, version |-> Version2_0,
       value_raw |-> NULL, score |-> Some(5 * Unit)] }

\* the criteria the model lets the import write observations of
ImportCodes == {pub_1, pen_1}

Upsert(f, k, row) == [x \in DOMAIN f \cup {k} |-> IF x = k THEN row ELSE f[x]]

ImportObservation ==
    /\ imports < MaxImports
    /\ \E c \in DOMAIN dim_indicator \cap ImportCodes, r \in ImportSamples :
          fact_indicator' = Upsert(fact_indicator,
              <<r.mo, r.period, c, r.version>>,
              [value_raw |-> r.value_raw, score |-> r.score])
    /\ imports' = imports + 1
    /\ Committed("other", {}, {})
    /\ UNCHANGED <<dim_indicator, has_rating_cols, map_scale, fact_penalty,
                   fact_summary>>

(***************************************************************************)
(* backend/migrations/fix_fact_indicator_scores.sql                        *)
(***************************************************************************)
\* largest magnitude a DECIMAL(5,2) holds, in hundredths: 999.99
ScoreMax == 99999

\* value_raw DECIMAL(15,4) assigned to score DECIMAL(5,2): rounded to two
\* decimals, half away from zero
RawToScore(raw) ==
    IF raw >= 0 THEN (raw + 5) \div 10
    ELSE -((-raw + 5) \div 10)

\* UPDATE fact_indicator SET score = value_raw
\*   WHERE score IS NULL AND value_raw IS NOT NULL
ScoreFromRaw(fi) ==
    [k \in DOMAIN fi |->
        IF fi[k].score = NULL /\ fi[k].value_raw # NULL
        THEN [fi[k] EXCEPT !.score = Some(RawToScore(Val(fi[k].value_raw)))]
        ELSE fi[k]]

\* the repair without its second UPDATE
ScoreZeroSkipped(fi) == fi

\* UPDATE fact_indicator SET score = 0 WHERE score IS NULL
ScoreZero(fi) ==
    [k \in DOMAIN fi |->
        IF fi[k].score = NULL THEN [fi[k] EXCEPT !.score = Some(0)]
        ELSE fi[k]]

\* the first UPDATE raises "numeric field overflow" for such a row
ScoreOverflows(fi) ==
    \E k \in DOMAIN fi :
        /\ fi[k].score = NULL
        /\ fi[k].value_raw # NULL
        /\ \/ RawToScore(Val(fi[k].value_raw)) > ScoreMax
           \/ RawToScore(Val(fi[k].value_raw)) < -ScoreMax

FixFactIndicatorScores ==
    IF ScoreOverflows(fact_indicator)
    THEN RolledBack("fix_fact_indicator_scores_failed")
    ELSE /\ fact_indicator' = ScoreZero(ScoreFromRaw(fact_indicator))
         /\ Committed("fix_fact_indicator_scores", {},
                      {k \in DOMAIN fact_indicator :
                           fact_indicator[k].score = NULL})
         /\ UNCHANGED <<dim_indicator, has_rating_cols, map_scale,
                        fact_penalty, fact_summary, imports>>

(***************************************************************************)
(* The zero-scores fix script (fix_zero_scores.sql): classification repair *)
(* by code prefix, then clear and rebuild fact_summary.                    *)
(***************************************************************************)
\* STEP 1 without its first UPDATE
SetPublicSkipped(di) == di

\* UPDATE dim_indicator SET rating_type = 'PUBLICHNYJ'
\*   WHERE code LIKE 'pub_%' AND rating_type IS NULL
SetPublic(di) ==
    [c \in DOMAIN di |->
        IF LikeUnderscoreAny(c, <<"p","u","b">>) /\ di[c].rating_type = NULL
        THEN [di[c] EXCEPT !.rating_type = Some(PUBLICHNYJ)]
        ELSE di[c]]

\* UPDATE dim_indicator SET rating_type = 'ZAKRYTYJ'
\*   WHERE code LIKE 'closed_%' AND rating_type IS NULL
SetClosed(di) ==
    [c \in DOMAIN di |->
        IF LikeUnderscoreAny(c, <<"c","l","o","s","e","d">>)
           /\ di[c].rating_type = NULL
        THEN [di[c] EXCEPT !.rating_type = Some(ZAKRYTYJ)]
        ELSE di[c]]

\* the third UPDATE written as a toggle of the flag
SetPenaltyToggled(di) ==
    [c \in DOMAIN di |->
        IF LikeUnderscoreAny(c, <<"p","e","n">>)
        THEN [di[c] EXCEPT !.is_penalty = ~di[c].is_penalty]
        ELSE di[c]]

\* UPDATE dim_indicator SET is_penalty = TRUE
\*   WHERE code LIKE 'pen_%' AND is_penalty = FALSE
SetPenalty(di) ==
    [c \in DOMAIN di |->
        IF LikeUnderscoreAny(c, <<"p","e","n">>) /\ di[c].is_penalty = FALSE
        THEN [di[c] EXCEPT !.is_penalty = TRUE]
        ELSE di[c]]

\* STEP 1
EnsureRatingType(di) == SetPenalty(SetClosed(SetPublic(di)))

\* zone thresholds, in score units
GreenFrom == 53
YellowFrom == 29

\* the zone CASE with strict comparisons
ZoneCaseStrict(total) ==
    IF total > GreenFrom * Unit THEN "Zelenaya"
    ELSE IF total > YellowFrom * Unit THEN "Zheltaya"
    ELSE "Krasnaya"

\* the zone CASE of the fix script (labels are Cyrillic in the source)
ZoneCase(total) ==
    IF total >= GreenFrom * Unit THEN "Zelenaya"
    ELSE IF total >= YellowFrom * Unit THEN "Zheltaya"
    ELSE "Krasnaya"

\* rows of fact_indicator that the CTE reads: JOIN dim_indicator,
\* WHERE fi.score IS NOT NULL
AggregatedRows(fi, di) ==
    {k \in DOMAIN fi : k[3] \in DOMAIN di /\ fi[k].score # NULL}

\* GROUP BY fi.mo_id, fi.period_id
AggregatedGroups(fi, di) == {<<k[1], k[2]>> : k \in AggregatedRows(fi, di)}

\* SUM(CASE WHEN di.rating_type = t THEN fi.score ELSE 0 END)
SumRatingType(fi, di, g, t) ==
    LET rows == {k \in AggregatedRows(fi, di) : <<k[1], k[2]>> = g}
    IN Coalesce(SqlSum(rows,
           [k \in rows |-> IF di[k[3]].rating_type = Some(t)
                           THEN fi[k].score ELSE Some(0)]), 0)

\* SUM(CASE WHEN di.is_penalty = TRUE THEN fi.score ELSE 0 END)
SumPenalty(fi, di, g) ==
    LET rows == {k \in AggregatedRows(fi, di) : <<k[1], k[2]>> = g}
    IN Coalesce(SqlSum(rows,
           [k \in rows |-> IF di[k[3]].is_penalty = TRUE
                           THEN fi[k].score ELSE Some(0)]), 0)

\* score_total without GREATEST
ScoreTotalUnfloored(pub, closed, pen) == pub + closed + pen

\* GREATEST(0.0, score_public + score_closed + score_penalties)
ScoreTotal(pub, closed, pen) == Greatest(0, pub + closed + pen)

\* the SELECT ... FROM aggregated row of one group
SummaryRow(fi, di, g) ==
    LET pub == SumRatingType(fi, di, g, PUBLICHNYJ)
        closed == SumRatingType(fi, di, g, ZAKRYTYJ)
        pen == SumPenalty(fi, di, g)
    IN [score_public |-> pub,
        score_closed |-> closed,
        score_penalties |-> pen,
        score_total |-> ScoreTotal(pub, closed, pen),
        zone |-> ZoneCase(ScoreTotal(pub, closed, pen))]

\* STEP 2 and STEP 3: DELETE FROM fact_summary; INSERT ... 1 as version_id
Recalculated(fi, di) ==
    LET keys == {<<g[1], g[2], 1>> : g \in AggregatedGroups(fi, di)}
    IN [s \in keys |-> SummaryRow(fi, di, <<s[1], s[2]>>)]

FixZeroScores ==
    IF ~has_rating_cols
    THEN RolledBack("other")   \* column rating_type does not exist
    ELSE /\ dim_indicator' = EnsureRatingType(dim_indicator)
         /\ fact_summary' = Recalculated(fact_indicator,
                                         EnsureRatingType(dim_indicator))
         /\ Committed("fix_zero_scores",
                      {c \in DOMAIN dim_indicator :
                           EnsureRatingType(dim_indicator)[c] # dim_indicator[c]},
                      {})
         /\ UNCHANGED <<has_rating_cols, map_scale, fact_indicator,
                        fact_penalty, imports>>

(***************************************************************************)
(* etl/fill_rating_data.sql: test data for period 2024-01, version v1.0.   *)
(***************************************************************************)
\* codes '1' .. '13' of the score_public subquery
FillPublicCodes ==
    { <<"1">>, <<"2">>, <<"3">>, <<"4">>, <<"5">>, <<"6">>, <<"7">>, <<"8">>,
      <<"9">>, <<"1","0">>, <<"1","1">>, <<"1","2">>, <<"1","3">> }

\* codes '14' .. '17' of the score_closed subquery
FillClosedCodes ==
    { <<"1","4">>, <<"1","5">>, <<"1","6">>, <<"1","7">> }

\* rows the script adds to dim_indicator (two of the criteria '1' .. '17')
FillIndicatorRows == (code_1 :> DefaultRow) @@ (code_14 :> DefaultRow)

\* the value_raw CASE, for the branch 'Gryazinskij' and the final ELSE
FillValueRaw(name, code) ==
    IF name = "Gryazinskij"
    THEN IF code \in { <<"1">>, <<"2">>, <<"3">>, <<"8">>, <<"1","2">>,
                       <<"1","4">>, <<"1","5">>, <<"1","6">>, <<"1","7">> }
         THEN 3
         ELSE IF code \in { <<"4">>, <<"5">>, <<"6">>, <<"7">>, <<"9">>,
                            <<"1","0">>, <<"1","1">>, <<"1","3">> }
         THEN 4
         ELSE 1
    ELSE IF code \in { <<"1">>, <<"2">>, <<"3">>, <<"8">> } THEN 3 ELSE 1

\* the score CASE
FillScore(name) ==
    IF name = "Lipeck" THEN 5
    ELSE IF name \in {"Elec", "Volovskij"} THEN 4
    ELSE IF name \in {"Gryazinskij"} THEN 3
    ELSE IF name \in {"Dankovskij", "Dobrinskij"} THEN 2
    ELSE 1

\* 5. DELETE FROM fact_indicator for the period and version, then INSERT
\*    one row for every municipality and every row of dim_indicator
FillFactIndicator(fi, di) ==
    LET kept == {k \in DOMAIN fi :
                    ~(k[2] = Period2024_01 /\ k[4] = VersionV1_0)}
        new == {<<mo, Period2024_01, c, VersionV1_0>> : mo \in Mo, c \in DOMAIN di}
    IN [k \in kept \cup new |->
           IF k \in new
           THEN [value_raw |-> Some(FillValueRaw(dim_mo[k[1]], k[3]) * RawUnit),
                 score |-> Some(FillScore(dim_mo[k[1]]) * Unit)]
           ELSE fi[k]]

\* the penalties the WHERE clause of the fact_penalty INSERT selects
FillPenaltyCodes(name) ==
    IF name = "Lipeck" THEN {"penalty_19"}
    ELSE IF name \in {"Elec", "Volovskij"} THEN {"penalty_19", "penalty_20"}
    ELSE IF name \in {"Gryazinskij", "Dankovskij", "Dobrinskij", "Dobrovskij"}
    THEN {"penalty_19"}
    ELSE {}

\* 6. DELETE FROM fact_penalty for the period and version, then INSERT
FillFactPenalty(fp) ==
    LET kept == {r \in fp :
                    ~(r.period_id = Period2024_01 /\ r.version_id = VersionV1_0)}
        sel == {x \in Mo \X {"penalty_18", "penalty_19", "penalty_20", "penalty_21"} :
                    x[2] \in FillPenaltyCodes(dim_mo[x[1]])}
    IN kept \cup
       {[mo_id |-> x[1], period_id |-> Period2024_01,
         version_id |-> VersionV1_0, code |-> x[2],
         score_negative |-> -1 * Unit] : x \in sel}

\* (SELECT SUM(score) FROM fact_indicator WHERE mo_id, period_id, version_id
\*  [AND ind_id IN (codes)])
FillSumScore(fi, mo, codes) ==
    LET rows == {k \in DOMAIN fi : /\ k[1] = mo
                                   /\ k[2] = Period2024_01
                                   /\ k[4] = VersionV1_0
                                   /\ k[3] \in codes}
    IN SqlSum(rows, [k \in rows |-> fi[k].score])

\* (SELECT SUM(score_negative) FROM fact_penalty WHERE mo_id, period_id, version_id)
FillSumPenalty(fp, mo) ==
    LET rows == {r \in fp : /\ r.mo_id = mo
                            /\ r.period_id = Period2024_01
                            /\ r.version_id = VersionV1_0}
    IN SqlSum(rows, [r \in rows |-> Some(r.score_negative)])

\* ROUND(COALESCE(SUM(score), 0) + COALESCE(SUM(score_negative), 0), 0)
FillTotal(fi, fp, di, mo) ==
    Round0(Coalesce(FillSumScore(fi, mo, DOMAIN di), 0)
           + Coalesce(FillSumPenalty(fp, mo), 0))

\* the zone CASE of the fill script
FillZone(total) ==
    IF total >= GreenFrom * Unit THEN "green"
    ELSE IF total >= YellowFrom * Unit THEN "yellow"
    ELSE "red"

FillSummaryRow(fi, fp, di, mo) ==
    [score_public |-> Coalesce(FillSumScore(fi, mo, FillPublicCodes), 0),
     score_closed |-> Coalesce(FillSumScore(fi, mo, FillClosedCodes), 0),
     score_penalties |-> Coalesce(FillSumPenalty(fp, mo), 0),
     score_total |-> FillTotal(fi, fp, di, mo),
     zone |-> FillZone(FillTotal(fi, fp, di, mo))]

\* 7. DELETE FROM fact_summary for the period and version, then INSERT one
\*    row per municipality ... ON CONFLICT DO UPDATE
FillFactSummary(fs, fi, fp, di) ==
    LET kept == {s \in DOMAIN fs :
                    ~(s[2] = Period2024_01 /\ s[3] = VersionV1_0)}
        new == {<<mo, Period2024_01, VersionV1_0>> : mo \in Mo}
    IN [s \in kept \cup new |->
           IF s \in new THEN FillSummaryRow(fi, fp, di, s[1]) ELSE fs[s]]

FillRatingData ==
    LET di == InsertIndicators(dim_indicator, FillIndicatorRows)
        fi == FillFactIndicator(fact_indicator, di)
        fp == FillFactPenalty(fact_penalty)
    IN /\ dim_indicator' = di
       /\ fact_indicator' = fi
       /\ fact_penalty' = fp
       /\ fact_summary' = FillFactSummary(fact_summary, fi, fp, di)
       /\ Committed("fill_rating_data", {}, {})
       /\ UNCHANGED <<has_rating_cols, map_scale, imports>>

(***************************************************************************)
(* backend/migrations/fill_rating_data_compact.sql                         *)
(***************************************************************************)
\* the score_public CASE for mo_id 1 .. 20
CompactPublic ==
    <<55, 50, 50, 52, 48, 36, 34, 34, 34, 34,
      29, 29, 26, 25, 25, 25, 25, 25, 25, 25>>

\* the score_total CASE for mo_id 1 .. 20
CompactTotal ==
    <<61, 56, 56, 52, 48, 36, 34, 34, 34, 34,
      29, 29, 26, 25, 25, 25, 25, 25, 25, 25>>

\* outcomes of the two draws ROUND(RANDOM() * 40 + 20) of one row (the draw of
\* score_public, the draw of score_total) that the model takes
RandomDraws == {<<20, 20>>, <<20, 53>>}

CompactPenalties(mo) == IF mo \in 1..12 THEN -1 ELSE 0

CompactZone(mo) ==
    IF mo = 1 THEN "green"
    ELSE IF mo \in {2, 3, 4} THEN "green"
    ELSE IF mo \in 5..12 THEN "yellow"
    ELSE "red"

\* one SELECT row; r1 and r2 are the two RANDOM() draws of the ELSE branches
CompactRow(mo, r1, r2) ==
    [score_public |-> (IF mo \in 1..20 THEN CompactPublic[mo] ELSE r1) * Unit,
     score_closed |-> 0,
     score_penalties |-> CompactPenalties(mo) * Unit,
     score_total |-> (IF mo \in 1..20 THEN CompactTotal[mo] ELSE r2) * Unit,
     zone |-> CompactZone(mo)]

FillRatingDataCompact ==
    \E r \in [{mo \in Mo : mo \notin 1..20} -> RandomDraws] :
        /\ fact_summary' =
              [s \in DOMAIN fact_summary
                     \cup {<<mo, Period2024_01, VersionV1_0>> : mo \in Mo} |->
                  IF s[2] = Period2024_01 /\ s[3] = VersionV1_0
                  THEN IF s[1] \in 1..20
                       THEN CompactRow(s[1], 0, 0)
                       ELSE CompactRow(s[1], r[s[1]][1], r[s[1]][2])
                  ELSE fact_summary[s]]
        /\ Committed("fill_rating_data_compact", {}, {})
        /\ UNCHANGED <<dim_indicator, has_rating_cols, map_scale,
                       fact_indicator, fact_penalty, imports>>

(***************************************************************************)
(* etl/seed_minimal_data.sql                                               *)
(***************************************************************************)
SeedMo == 21   \* the row 'Gorod N' of dim_mo

SeedFactRow == [value_raw |-> Some(600000 * RawUnit), score |-> Some(60)]

SeedSummaryRow ==
    [score_public |-> 60, score_closed |-> 0, score_penalties |-> 0,
     score_total |-> 60, zone |-> "B"]

\* INSERT ... ON CONFLICT DO NOTHING
InsertIfAbsent(f, k, row) ==
    [x \in DOMAIN f \cup {k} |-> IF x \in DOMAIN f THEN f[x] ELSE row]

SeedMinimalData ==
    /\ dim_indicator' = InsertIndicators(dim_indicator, POP :> DefaultRow)
    /\ map_scale' = map_scale \cup {POP}
    /\ fact_indicator' = InsertIfAbsent(fact_indicator,
           <<SeedMo, PeriodCurrentMonth, POP, VersionV1_0>>, SeedFactRow)
    /\ fact_summary' = InsertIfAbsent(fact_summary,
           <<SeedMo, PeriodCurrentMonth, VersionV1_0>>, SeedSummaryRow)
    /\ Committed("other", {}, {})
    /\ UNCHANGED <<has_rating_cols, fact_penalty, imports>>

(***************************************************************************)
(* load_official_data.sql: one INSERT INTO fact_indicator ... SELECT per   *)
(* criterion, each WHERE NOT EXISTS a row of the municipality, criterion   *)
(* and period 1, all in one transaction.                                   *)
(***************************************************************************)
\* the columns of fact_indicator, and those that are NOT NULL without default
FactIndicatorColumns ==
    {"fact_ind_id", "mo_id", "period_id", "ind_id", "version_id", "value_raw",
     "value_norm", "score", "target", "source_id", "updated_at"}
FactIndicatorRequired == {"mo_id", "period_id", "ind_id", "version_id"}

\* the column list of every INSERT of the script
LoadColumns == {"mo_id", "ind_id", "period_id", "score", "created_at", "updated_at"}

\* rows of the script for 'Lipeck': closed_1 is
\* LEAST(6, GREATEST(0, (2150 / 500 * 6)::int)) = 6, pen_1 is 'Net' -> 0
LoadRows ==
    { [mo_name |-> "Lipeck", code |-> closed_1, score |-> 6 * Unit],
      [mo_name |-> "Lipeck", code |-> pen_1, score |-> 0] }

\* an INSERT that names a column the table does not have, or that leaves a
\* NOT NULL column without a value, raises
LoadFails ==
    \/ ~(LoadColumns \subseteq FactIndicatorColumns)
    \/ ~(FactIndicatorRequired \subseteq LoadColumns)

\* JOIN dim_indicator i ON i.code = '<code>' AND i.rating_type = '...' for the
\* criteria of the two ratings, ... AND i.is_penalty = true for the penalties
LoadJoinOn(code, row) ==
    IF code = closed_1 THEN row.rating_type = Some(ZAKRYTYJ)
    ELSE row.is_penalty = TRUE

\* the rows of the script that pass both JOINs and the WHERE NOT EXISTS
LoadSelected(di, fi) ==
    {r \in LoadRows :
        /\ \E m \in Mo : dim_mo[m] = r.mo_name
        /\ r.code \in DOMAIN di
        /\ LoadJoinOn(r.code, di[r.code])
        /\ ~\E k \in DOMAIN fi :
              dim_mo[k[1]] = r.mo_name /\ k[3] = r.code /\ k[2] = Period2024_01}

\* the table after the INSERTs of the script
LoadInserted(di, fi) ==
    LET new == {<<CHOOSE m \in Mo : dim_mo[m] = r.mo_name, Period2024_01,
                  r.code, VersionV1_0>> : r \in LoadSelected(di, fi)}
    IN [k \in DOMAIN fi \cup new |->
           IF k \in DOMAIN fi THEN fi[k]
           ELSE [value_raw |-> NULL,
                 score |-> Some((CHOOSE r \in LoadRows : r.code = k[3]).score)]]

\* the first INSERT raises, the following statements are skipped and COMMIT
\* rolls back
LoadOfficialData ==
    IF LoadFails
    THEN RolledBack("load_official_data")
    ELSE /\ fact_indicator' = LoadInserted(dim_indicator, fact_indicator)
         /\ Committed("load_official_data", {}, {})
         /\ UNCHANGED <<dim_indicator, has_rating_cols, map_scale,
                        fact_penalty, fact_summary, imports>>

(***************************************************************************)
(* frontend/src/pages/RatingPage.jsx                                       *)
(***************************************************************************)
\* getScoreColor(score): the colour of the zone of a score
getScoreColor(score) ==
    IF score >= GreenFrom * Unit THEN "#2ecc71"
    ELSE IF score >= YellowFrom * Unit THEN "#f39c12"
    ELSE "#e74c3c"

\* getZoneLabel(zone): labels[zone] || 'Net dannyh'
getZoneLabel(zone) ==
    IF zone = "green" THEN "Zelyonaya"
    ELSE IF zone = "yellow" THEN "Zhyoltaya"
    ELSE IF zone = "red" THEN "Krasnaya"
    ELSE "Net dannyh"

(***************************************************************************)
(* frontend/src/pages/MapPage.jsx                                          *)
(***************************************************************************)
\* const zones = { green: mapData.filter(d => d.zone === 'green'), ... }
zones(mapData) ==
    [z \in {"green", "yellow", "red"} |-> {d \in mapData : d.zone = z}]

Next ==
    \/ CreateCriteriaBlocks
    \/ ImplementOfficialMethodology
    \/ FixDimIndicatorColumns
    \/ ImportObservation
    \/ FixFactIndicatorScores
    \/ FixZeroScores
    \/ FillRatingData
    \/ FillRatingDataCompact
    \/ SeedMinimalData
    \/ LoadOfficialData

Spec == Init /\ [][Next]_vars

(***************************************************************************)
(* The zone classifier as a pure function: a score_total is drawn, and the *)
(* three implementations of the classifier are applied to it.              *)
(***************************************************************************)
InitZone ==
    /\ InitTables
    /\ UiIdle
    /\ zscore \in (-ZoneBelow * Unit) .. (ZoneMax * Unit)
    /\ zlabels = NULL
    /\ TxIdle

ClassifyZone ==
    /\ zlabels = NULL
    /\ zlabels' = Some([fix |-> ZoneCase(zscore),
                        fill |-> FillZone(zscore),
                        color |-> getScoreColor(zscore)])
    /\ UNCHANGED <<dim_indicator, has_rating_cols, map_scale, fact_indicator,
                   fact_penalty, fact_summary, lastOp, again, imports, healed,
                   backfilled, zscore, heap, sess, seen>>
    /\ UNCHANGED UiVars

NextZone == ClassifyZone

SpecZone == InitZone /\ [][NextZone]_vars

(***************************************************************************)
(* Concurrent runs of the zero-scores fix script.  Each driver is a psql   *)
(* session that executes the statements of the script in order, inside     *)
(* BEGIN TRANSACTION ... COMMIT, at PostgreSQL's default isolation level   *)
(* READ COMMITTED.  fact_summary is held as row versions: a version is     *)
(* inserted by a transaction (xmin, the second component of its id) and    *)
(* possibly deleted by one (xmax).  fact_indicator does not change here.   *)
(***************************************************************************)
Drivers == {"d1", "d2"}

\* the 20 criteria of the official methodology
Digit == <<"1", "2", "3", "4", "5", "6", "7", "8", "9">>
pub(n) == <<"p","u","b","_", Digit[n]>>
closed(n) == <<"c","l","o","s","e","d","_", Digit[n]>>
pen(n) == <<"p","e","n","_", Digit[n]>>

OfficialRowsAll ==
    [c \in {pub(n) : n \in 1..9} |->
        [rating_type |-> Some(PUBLICHNYJ), is_penalty |-> FALSE]] @@
    [c \in {closed(n) : n \in 1..8} |->
        [rating_type |-> Some(ZAKRYTYJ), is_penalty |-> FALSE]] @@
    [c \in {pen(n) : n \in 1..3} |->
        [rating_type |-> NULL, is_penalty |-> TRUE]]

\* max_points of the rows of Steps 5, 6 and 7, in the order of the codes
PublicMaxPoints == <<3, 5, 3, 3, 3, 3, 3, 3, 3>>
ClosedMaxPoints == <<6, 4, 5, 5, 3, 3, 6, 2>>
PenaltyMaxPoints == <<-3, -3, -5>>

\* column max_points of the rows the migration inserts
max_points ==
    [c \in {pub(n) : n \in 1..9} |->
        PublicMaxPoints[CHOOSE n \in 1..9 : pub(n) = c]] @@
    [c \in {closed(n) : n \in 1..8} |->
        ClosedMaxPoints[CHOOSE n \in 1..8 : closed(n) = c]] @@
    [c \in {pen(n) : n \in 1..3} |->
        PenaltyMaxPoints[CHOOSE n \in 1..3 : pen(n) = c]]

\* the catalog after implement_official_methodology.sql, and after
\* fix_dim_indicator_columns.sql (followed or not by the methodology again)
TxCatalogs ==
    { [cols |-> TRUE, di |-> OfficialRowsAll],
      [cols |-> TRUE, di |-> [c \in DOMAIN OfficialRowsAll |-> DefaultRow]],
      [cols |-> FALSE, di |-> [c \in DOMAIN OfficialRowsAll |-> DefaultRow]] }

\* observation stores: two municipalities with one observation each; the
\* same plus a municipality whose 17 scored criteria all hold 999.99
TxStoreSmall ==
    (<<4, Period2024_01, pub_1, VersionV1_0>> :>
        [value_raw |-> NULL, score |-> Some(5 * Unit)]) @@
    (<<1, Period2024_01, pen_1, VersionV1_0>> :>
        [value_raw |-> NULL, score |-> Some(-3 * Unit)])

TxStoreLarge ==
    TxStoreSmall @@
    [k \in {<<21, Period2024_01, c, VersionV1_0>> :
               c \in {pub(n) : n \in 1..9} \cup {closed(n) : n \in 1..8}} |->
        [value_raw |-> NULL, score |-> Some(ScoreMax)]]

TxStores == {TxStoreSmall, TxStoreLarge}

\* fact_summary before the runs: empty, or the rows of the compact fill
TxHeaps ==
    { <<>>,
      [id \in {<<<<mo, Period2024_01, VersionV1_0>>, "boot">> : mo \in Mo} |->
          [row |-> CompactRow(id[1][1], 20, 20), xmax |-> "none"]] }

\* position of a driver in the script
Active(t) ==
    /\ t \in Drivers
    /\ sess[t].pc \in {"update", "delete_start", "delete", "insert", "commit"}

\* has transaction x committed ("boot" wrote the rows present at the start)
\* a rolled-back transaction taken for a committed one
CommittedTxOrFailed(x) ==
    x = "boot" \/ (x \in Drivers /\ sess[x].pc \in {"done", "failed"})

CommittedTx(x) == x = "boot" \/ (x \in Drivers /\ sess[x].pc = "done")

\* READ COMMITTED: a statement of another session sees a row version whose
\* inserting transaction committed and whose deleting one did not
\* a read that also sees what open transactions have written
VisibleDirty(id) ==
    /\ id[2] = "boot" \/ (id[2] \in Drivers /\ sess[id[2]].pc # "failed")
    /\ heap[id].xmax = "none" \/ sess[heap[id].xmax].pc = "failed"

Visible(id) ==
    /\ CommittedTx(id[2])
    /\ ~(heap[id].xmax # "none" /\ CommittedTx(heap[id].xmax))

\* a statement of driver t also sees what t itself inserted and deleted
VisibleTo(id, t) ==
    /\ CommittedTx(id[2]) \/ id[2] = t
    /\ ~(heap[id].xmax # "none"
         /\ (CommittedTx(heap[id].xmax) \/ heap[id].xmax = t))

\* the rows a SELECT of another session returns
VisibleStore == {<<id[1], heap[id].row>> : id \in {i \in DOMAIN heap : Visible(i)}}

InitTx ==
    /\ \E c \in TxCatalogs : dim_indicator = c.di /\ has_rating_cols = c.cols
    /\ map_scale = {}
    /\ fact_indicator \in TxStores
    /\ fact_penalty = {}
    /\ fact_summary = <<>>
    /\ lastOp = "other"
    /\ again = FALSE
    /\ imports = 0
    /\ healed = {}
    /\ backfilled = {}
    /\ zscore = 0
    /\ zlabels = NULL
    /\ heap \in TxHeaps
    /\ sess = [t \in Drivers |-> [pc |-> "idle", why |-> "none",
                                  locked |-> {}, snap |-> {}]]
    /\ seen = {<<id[1], heap[id].row>> : id \in DOMAIN heap}
    /\ UiIdle

\* what the concurrent runs leave alone
TxFrame ==
    /\ UNCHANGED <<has_rating_cols, map_scale, fact_indicator, fact_penalty,
                   fact_summary, lastOp, again, imports, healed, backfilled,
                   zscore, zlabels>>
    /\ UNCHANGED UiVars

\* driver t moves on to the statement at pc
Goto(t, pc) == sess' = [sess EXCEPT ![t].pc = pc]

\* a statement of driver t raised: psql skips the remaining statements and
\* COMMIT rolls the transaction back
Fail(t, why) ==
    /\ sess' = [sess EXCEPT ![t].pc = "failed", ![t].why = why]
    /\ UNCHANGED <<dim_indicator, heap, seen>>
    /\ TxFrame

\* BEGIN TRANSACTION
Begin(t) ==
    /\ sess[t].pc = "idle"
    /\ Goto(t, "update")
    /\ UNCHANGED <<dim_indicator, heap, seen>>
    /\ TxFrame

\* the rows of dim_indicator STEP 1 updates
NeedsUpdate == {c \in DOMAIN dim_indicator :
                   EnsureRatingType(dim_indicator)[c] # dim_indicator[c]}

\* STEP 1: the three UPDATEs; a row another open transaction has updated is
\* locked, and the UPDATE waits for that transaction to end
Update(t) ==
    /\ sess[t].pc = "update"
    /\ IF ~has_rating_cols
       THEN Fail(t, "undefined_column")
       ELSE /\ \A u \in Drivers \ {t} :
                   Active(u) => sess[u].locked \cap NeedsUpdate = {}
            /\ sess' = [sess EXCEPT ![t].pc = "delete_start",
                                    ![t].locked = NeedsUpdate]
            /\ UNCHANGED <<dim_indicator, heap, seen>>
            /\ TxFrame

\* dim_indicator as the statements of driver t see it
View(t) ==
    [c \in DOMAIN dim_indicator |->
        IF c \in sess[t].locked THEN EnsureRatingType(dim_indicator)[c]
        ELSE dim_indicator[c]]

\* STEP 2, DELETE FROM fact_summary: the statement takes its snapshot
DeleteStart(t) ==
    /\ sess[t].pc = "delete_start"
    /\ sess' = [sess EXCEPT ![t].pc = "delete",
                            ![t].snap = {id \in DOMAIN heap : VisibleTo(id, t)}]
    /\ UNCHANGED <<dim_indicator, heap, seen>>
    /\ TxFrame

\* the row versions after driver t deleted those of its snapshot; a version
\* that a committed transaction deleted meanwhile is skipped
MarkDeleted(h, snap, t) ==
    [id \in DOMAIN h |->
        IF id \in snap /\ ~(h[id].xmax # "none" /\ CommittedTx(h[id].xmax))
        THEN [h[id] EXCEPT !.xmax = t]
        ELSE h[id]]

\* STEP 2: the DELETE waits while another open transaction has deleted a row
\* of the snapshot, then deletes
DeleteFinish(t) ==
    /\ sess[t].pc = "delete"
    /\ \A id \in sess[t].snap : ~(heap[id].xmax # t /\ Active(heap[id].xmax))
    /\ heap' = MarkDeleted(heap, sess[t].snap, t)
    /\ Goto(t, "insert")
    /\ UNCHANGED <<dim_indicator, seen>>
    /\ TxFrame

\* largest magnitude a DECIMAL(6,2) holds, in hundredths: 9999.99
SummaryMax == 999999

\* a value of the row does not fit its DECIMAL(6,2) column
SummaryOverflows(row) ==
    \E v \in {row.score_public, row.score_closed, row.score_penalties,
              row.score_total} : v > SummaryMax \/ v < -SummaryMax

\* a unique index that keeps the entries of rolled-back transactions
CollidesRolledBack(s, t) ==
    {id \in DOMAIN heap :
        /\ id[1] = s
        /\ heap[id].xmax # t
        /\ ~(heap[id].xmax # "none" /\ CommittedTx(heap[id].xmax))}

\* row versions with the key s that a new row of driver t collides with in
\* the unique index: inserted by a transaction that did not roll back, and
\* not deleted by t or by a committed transaction
Collides(s, t) ==
    {id \in DOMAIN heap :
        /\ id[1] = s
        /\ CommittedTx(id[2]) \/ Active(id[2])
        /\ heap[id].xmax # t
        /\ ~(heap[id].xmax # "none" /\ CommittedTx(heap[id].xmax))}

\* STEP 3: INSERT INTO fact_summary ... FROM aggregated
Insert(t) ==
    LET rows == Recalculated(fact_indicator, View(t))
        hit == UNION {Collides(s, t) : s \in DOMAIN rows}
    IN /\ sess[t].pc = "insert"
       /\ IF \E s \in DOMAIN rows : SummaryOverflows(rows[s])
          THEN Fail(t, "numeric_overflow")
          ELSE \* the INSERT waits for the open transactions it collides with
               /\ \A id \in hit : ~Active(id[2]) /\ ~Active(heap[id].xmax)
               /\ IF hit # {}
                  THEN Fail(t, "unique_violation")
                  ELSE /\ heap' = heap @@
                            [id \in {<<s, t>> : s \in DOMAIN rows} |->
                                [row |-> rows[id[1]], xmax |-> "none"]]
                       /\ Goto(t, "commit")
                       /\ UNCHANGED <<dim_indicator, seen>>
                       /\ TxFrame

\* COMMIT
Commit(t) ==
    /\ sess[t].pc = "commit"
    /\ dim_indicator' = View(t)
    /\ Goto(t, "done")
    /\ UNCHANGED <<heap, seen>>
    /\ TxFrame

\* the session of an open transaction ends (killed, connection lost)
Abort(t) ==
    /\ Active(t)
    /\ Fail(t, "aborted")

\* a reader runs SELECT ... FROM fact_summary
Read ==
    /\ seen' = VisibleStore
    /\ UNCHANGED <<dim_indicator, heap, sess>>
    /\ TxFrame

NextTx ==
    \/ \E t \in Drivers : Begin(t)
    \/ \E t \in Drivers : Update(t)
    \/ \E t \in Drivers : DeleteStart(t)
    \/ \E t \in Drivers : DeleteFinish(t)
    \/ \E t \in Drivers : Insert(t)
    \/ \E t \in Drivers : Commit(t)
    \/ \E t \in Drivers : Abort(t)
    \/ Read

SpecTx == InitTx /\ [][NextTx]_vars

(***************************************************************************)
(* The pages.  RatingPage (frontend/src/pages/RatingPage.jsx) fetches the  *)
(* rating whenever its prop period or its state sort or currentPage        *)
(* changes; RatingTable (frontend/src/components/RatingTable.tsx) fetches  *)
(* whenever its state page changes.  A request is in flight until its      *)
(* response arrives; responses arrive in any order, and a request can      *)
(* fail.  A response carries the parameters it answers and its number of   *)
(* rows.                                                                   *)
(***************************************************************************)
\* requests the model lets the pages issue
MaxRequests == 6

\* rows the server holds for every period and sort
ServerRows == 120

\* const pageSize = 50
pageSize == 50

\* the periods the Header offers, of which the first is the initial one
UiPeriods == {"2024-01", "2024-07"}

\* the options of the sort select
SortOptions == {"score_total", "score_public", "mo_name"}

\* response.data.data of GET /rating for a page: the rows of that page
PageRows(page) ==
    LET rest == ServerRows - (page - 1) * pageSize
    IN IF rest <= 0 THEN 0 ELSE IF rest >= pageSize THEN pageSize ELSE rest

\* useState([]): no rows, answer to no request
NoData == [of |-> NULL, len |-> 0]

\* what a request of RatingPage asks for
Params(rp) == [period |-> rp.period, sort |-> rp.sort, page |-> rp.currentPage]

\* the page renders its table and controls: neither the spinner nor the error
Rendered(c) == ~c.loading /\ c.error = NULL

\* the effect of RatingPage: setLoading(true), setError(null), and the request
fetchRating(rp) ==
    /\ issued < MaxRequests
    /\ issued' = issued + 1
    /\ RatingPage' = [rp EXCEPT !.loading = TRUE, !.error = NULL]
    /\ network' = network \cup
          {[to |-> "RatingPage", id |-> issued + 1, params |-> Params(rp)]}

\* everything but the pages
UiFrame ==
    UNCHANGED <<dim_indicator, has_rating_cols, map_scale, fact_indicator,
                fact_penalty, fact_summary, lastOp, again, imports, healed,
                backfilled, zscore, zlabels, heap, sess, seen>>

\* Header: setPeriod(e.target.value)
setPeriod(p) ==
    /\ p # RatingPage.period
    /\ fetchRating([RatingPage EXCEPT !.period = p])
    /\ UNCHANGED RatingTable
    /\ UiFrame

\* sort select onChange: setSort(e.target.value); setCurrentPage(1)
SortChange(v) ==
    /\ Rendered(RatingPage)
    /\ v # RatingPage.sort
    /\ fetchRating([RatingPage EXCEPT !.sort = v, !.currentPage = 1])
    /\ UNCHANGED RatingTable
    /\ UiFrame

\* Math.max(1, n)
MathMax1(n) == IF n > 1 THEN n ELSE 1

\* disabled={currentPage === 1}
BackDisabled(currentPage) == currentPage = 1

\* "Nazad": setCurrentPage(Math.max(1, currentPage - 1))
BackClick ==
    /\ Rendered(RatingPage)
    /\ ~BackDisabled(RatingPage.currentPage)
    /\ fetchRating([RatingPage EXCEPT
                      !.currentPage = MathMax1(RatingPage.currentPage - 1)])
    /\ UNCHANGED RatingTable
    /\ UiFrame

\* "Dalee": setCurrentPage(currentPage + 1), disabled={ratingData.length < pageSize}
ForwardClick ==
    /\ Rendered(RatingPage)
    /\ ~(RatingPage.ratingData.len < pageSize)
    /\ fetchRating([RatingPage EXCEPT !.currentPage = RatingPage.currentPage + 1])
    /\ UNCHANGED RatingTable
    /\ UiFrame

\* a response to a request of RatingPage arrives: setRatingData, or setError
\* in the catch; setLoading(false) in the finally
RatingResponse ==
    \E r \in {x \in network : x.to = "RatingPage"}, ok \in BOOLEAN :
        /\ RatingPage' =
              IF ok
              THEN [RatingPage EXCEPT
                      !.ratingData = [of |-> Some(r.params),
                                      len |-> PageRows(r.params.page)],
                      !.loading = FALSE]
              ELSE [RatingPage EXCEPT
                      !.error = Some("Oshibka zagruzki rejtinga"),
                      !.loading = FALSE]
        /\ network' = network \ {r}
        /\ UNCHANGED <<RatingTable, issued>>
        /\ UiFrame

\* the effect of RatingTable: setLoading(true), setError(null), getRating(page, 50)
getRating(rt) ==
    /\ issued < MaxRequests
    /\ issued' = issued + 1
    /\ RatingTable' = [rt EXCEPT !.loading = TRUE, !.error = NULL]
    /\ network' = network \cup
          {[to |-> "RatingTable", id |-> issued + 1,
            params |-> [period |-> "", sort |-> "", page |-> rt.page]]}

\* the table and its pagination are rendered
TableRendered == Rendered(RatingTable) /\ RatingTable.items.len > 0

\* the button that never is disabled
PreviousDisabledNever(page) == FALSE

\* disabled={page === 1}
PreviousDisabled(page) == page = 1

\* "Predydushchaya": setPage(p => p - 1)
PreviousClick ==
    /\ TableRendered
    /\ ~PreviousDisabled(RatingTable.page)
    /\ getRating([RatingTable EXCEPT !.page = RatingTable.page - 1])
    /\ UNCHANGED RatingPage
    /\ UiFrame

\* "Sleduyushchaya": setPage(p => p + 1), disabled={!items || items.length < 50}
FollowingClick ==
    /\ TableRendered
    /\ ~(RatingTable.items.len < 50)
    /\ getRating([RatingTable EXCEPT !.page = RatingTable.page + 1])
    /\ UNCHANGED RatingPage
    /\ UiFrame

\* a response to a request of RatingTable arrives: .then, or .catch, .finally
TableResponse ==
    \E r \in {x \in network : x.to = "RatingTable"}, ok \in BOOLEAN :
        /\ RatingTable' =
              IF ok
              THEN [RatingTable EXCEPT
                      !.items = [of |-> Some(r.params),
                                 len |-> PageRows(r.params.page)],
                      !.error = NULL,
                      !.loading = FALSE]
              ELSE [RatingTable EXCEPT
                      !.items = NoData,
                      !.error = Some("Oshibka zagruzki rejtinga"),
                      !.loading = FALSE]
        /\ network' = network \ {r}
        /\ UNCHANGED <<RatingPage, issued>>
        /\ UiFrame

\* both components are mounted and their first effects have run
InitPages ==
    /\ InitTables
    /\ zscore = 0
    /\ zlabels = NULL
    /\ TxIdle
    /\ RatingPage = [period |-> "2024-01", sort |-> "score_total",
                     currentPage |-> 1, ratingData |-> NoData,
                     loading |-> TRUE, error |-> NULL]
    /\ RatingTable = [page |-> 1, items |-> NoData, loading |-> TRUE,
                      error |-> NULL]
    /\ network =
          {[to |-> "RatingPage", id |-> 1,
            params |-> [period |-> "2024-01", sort |-> "score_total",
                        page |-> 1]],
           [to |-> "RatingTable", id |-> 2,
            params |-> [period |-> "", sort |-> "", page |-> 1]]}
    /\ issued = 2

NextPages ==
    \/ \E p \in UiPeriods : setPeriod(p)
    \/ \E v \in SortOptions : SortChange(v)
    \/ BackClick
    \/ ForwardClick
    \/ RatingResponse
    \/ PreviousClick
    \/ FollowingClick
    \/ TableResponse

SpecPages == InitPages /\ [][NextPages]_vars

(***************************************************************************)
(* Properties.                                                             *)
(***************************************************************************)
\* the scripts that write fact_summary from its sources
AggregationRuns ==
    {"fix_zero_scores", "fill_rating_data", "fill_rating_data_compact"}

\* the zone a stored label or a colour stands for
ZoneOf(label) ==
    IF label \in {"Zelenaya", "green", "#2ecc71"} THEN "Green"
    ELSE IF label \in {"Zheltaya", "yellow", "#f39c12"} THEN "Yellow"
    ELSE IF label \in {"Krasnaya", "red", "#e74c3c"} THEN "Red"
    ELSE "none"

\* the zone of a score_total as section 4.5 of the specification defines it
Classify(total) ==
    IF total >= 53 * 100 THEN "Green"
    ELSE IF total >= 29 * 100 THEN "Yellow"
    ELSE "Red"

\* the classifications of a criterion row
IsPublic(row) == row.rating_type = Some(PUBLICHNYJ)
IsClosed(row) == row.rating_type = Some(ZAKRYTYJ)
IsPenalty(row) == row.is_penalty
Unset(row) == row.rating_type = NULL /\ ~row.is_penalty

\* observations of one municipality and period
ObsOf(fi, mo, p) == {k \in DOMAIN fi : k[1] = mo /\ k[2] = p}

\* sum of the scores of a set of observations (a null score adds nothing)
ScoreSum(fi, keys) == SumOver(keys, [k \in keys |-> Coalesce(fi[k].score, 0)])

\* C1: after a run that writes fact_summary, every stored row has
\* score_total = max(0, score_public + score_closed + score_penalties)
C1_TotalIsFlooredSum ==
    lastOp \in AggregationRuns =>
        \A s \in DOMAIN fact_summary :
            fact_summary[s].score_total =
                Greatest(0, fact_summary[s].score_public
                            + fact_summary[s].score_closed
                            + fact_summary[s].score_penalties)

\* C2: in every aggregate the fix script writes, the three subtotals add up
\* to the sum of the scores of all observations of the municipality and period
C2_SubtotalsCoverObservations ==
    lastOp = "fix_zero_scores" =>
        \A s \in DOMAIN fact_summary :
            fact_summary[s].score_public + fact_summary[s].score_closed
                + fact_summary[s].score_penalties
            = ScoreSum(fact_indicator, ObsOf(fact_indicator, s[1], s[2]))

\* the conventional code prefixes
PubCode(c) == LikeUnderscoreAny(c, <<"p","u","b">>)
ClosedCode(c) == LikeUnderscoreAny(c, <<"c","l","o","s","e","d">>)
PenCode(c) == LikeUnderscoreAny(c, <<"p","e","n">>)

\* the sum of one partition of a municipality and period: the scores of the
\* observations whose criterion satisfies the classification test
PublicSum(fi, di, mo, p) ==
    ScoreSum(fi, {k \in ObsOf(fi, mo, p) : IsPublic(di[k[3]])})
ClosedSum(fi, di, mo, p) ==
    ScoreSum(fi, {k \in ObsOf(fi, mo, p) : IsClosed(di[k[3]])})
PenaltySum(fi, di, mo, p) ==
    ScoreSum(fi, {k \in ObsOf(fi, mo, p) : IsPenalty(di[k[3]])})

\* an observation with score 5 of a criterion that has no classification
FiveOfUnset(k) ==
    /\ fact_indicator[k].score = Some(5 * Unit)
    /\ Unset(dim_indicator[k[3]])

\* what a run of the fix script does for such an observation
HealedAndCounted(k) ==
    LET c == k[3]
        s == <<k[1], k[2], 1>>
    IN /\ s \in DOMAIN fact_summary'
       /\ PubCode(c) =>
             /\ IsPublic(dim_indicator'[c])
             /\ ~IsPenalty(dim_indicator'[c])
             /\ fact_summary'[s].score_public =
                    PublicSum(fact_indicator', dim_indicator', k[1], k[2])
       /\ ClosedCode(c) =>
             /\ IsClosed(dim_indicator'[c])
             /\ ~IsPenalty(dim_indicator'[c])
             /\ fact_summary'[s].score_closed =
                    ClosedSum(fact_indicator', dim_indicator', k[1], k[2])
       /\ PenCode(c) =>
             /\ IsPenalty(dim_indicator'[c])
             /\ dim_indicator'[c].rating_type = NULL
             /\ fact_summary'[s].score_penalties =
                    PenaltySum(fact_indicator', dim_indicator', k[1], k[2])

\* C3: a criterion with a conventional code and no classification that an
\* observation with score 5 uses is, after a run of the fix script,
\* classified by its prefix, and the 5 is in the matching partition sum of
\* the aggregate of the observation's municipality and period
C3_UnsetCriterionHealed ==
    [][lastOp' = "fix_zero_scores" =>
          \A k \in DOMAIN fact_indicator :
              (FiveOfUnset(k) /\ (PubCode(k[3]) \/ ClosedCode(k[3]) \/ PenCode(k[3])))
                  => HealedAndCounted(k)]_vars

\* C3 witness: pub_1 was unclassified, has an observation with score 5, and
\* the run classified it and counted the 5 in score_public
C3_Witness ==
    /\ lastOp = "fix_zero_scores"
    /\ pub_1 \in healed
    /\ <<4, Period2024_01, pub_1, Version2_0>> \in DOMAIN fact_indicator
    /\ fact_indicator[<<4, Period2024_01, pub_1, Version2_0>>].score = Some(5 * Unit)
    /\ IsPublic(dim_indicator[pub_1])
    /\ <<4, Period2024_01, 1>> \in DOMAIN fact_summary
    /\ fact_summary[<<4, Period2024_01, 1>>].score_public = 5 * Unit

\* C4: after a run of the fix script, every criterion that an observation
\* references has exactly one of the classifications Public, Closed, Penalty
C4_ExactlyOneClassification ==
    lastOp = "fix_zero_scores" =>
        \A k \in DOMAIN fact_indicator :
            LET row == dim_indicator[k[3]]
            IN /\ IsPublic(row) \/ IsClosed(row) \/ IsPenalty(row)
               /\ ~(row.rating_type # NULL /\ IsPenalty(row))

\* C5: a script that writes fact_summary, run directly after a run of the
\* same script, leaves fact_summary as the first run left it
C5_SecondRunChangesNothing ==
    [][(lastOp \in AggregationRuns /\ lastOp' = lastOp)
           => fact_summary' = fact_summary]_vars

\* C6: the zone stored in every row of fact_summary is the zone of the row's
\* score_total (Green from 53, Yellow from 29 to below 53, Red below 29)
C6_StoredZoneMatchesTotal ==
    \A s \in DOMAIN fact_summary :
        ZoneOf(fact_summary[s].zone) = Classify(fact_summary[s].score_total)

\* the zones
Zones == {"Green", "Yellow", "Red"}

\* what the claim fixes about the zone of a classifier's answer for zscore
ZoneAsSpecified(z) ==
    /\ z \in Zones
    /\ zscore = 28 * Unit => z = "Red"
    /\ zscore = 29 * Unit => z = "Yellow"
    /\ zscore = 52 * Unit => z = "Yellow"
    /\ zscore = 53 * Unit => z = "Green"

\* C7: for every score_total from -100 to 200 each zone classifier (the CASE
\* of the fix script, the CASE of the fill script, getScoreColor) answers
\* with exactly one of Green, Yellow, Red; 28 is Red, 29 and 52 are Yellow,
\* 53 is Green
C7_ZoneTotalAndBoundaryExact ==
    zlabels # NULL =>
        /\ ZoneAsSpecified(ZoneOf(Val(zlabels).fix))
        /\ ZoneAsSpecified(ZoneOf(Val(zlabels).fill))
        /\ ZoneAsSpecified(ZoneOf(Val(zlabels).color))

\* C7 witness: the classifiers were applied to 29 and answered Yellow
C7_Witness ==
    /\ zlabels # NULL
    /\ zscore = 29 * Unit
    /\ Val(zlabels).fix = "Zheltaya"
    /\ Val(zlabels).fill = "yellow"
    /\ Val(zlabels).color = "#f39c12"

\* C8: after a run of the fix script, a municipality without observations
\* in a period has an aggregate row for that period with all sums 0, total 0
\* and zone Red
C8_ZeroRowForNoObservations ==
    lastOp = "fix_zero_scores" =>
        \A mo \in Mo, p \in Periods :
            ObsOf(fact_indicator, mo, p) = {} =>
                \E s \in DOMAIN fact_summary :
                    /\ s[1] = mo /\ s[2] = p
                    /\ fact_summary[s].score_public = 0
                    /\ fact_summary[s].score_closed = 0
                    /\ fact_summary[s].score_penalties = 0
                    /\ fact_summary[s].score_total = 0
                    /\ ZoneOf(fact_summary[s].zone) = "Red"

\* what an observation adds to its partition sum once it is repaired
Repaired(row) ==
    IF row.score # NULL THEN Val(row.score)
    ELSE IF row.value_raw # NULL THEN RawToScore(Val(row.value_raw))
    ELSE 0

\* C9: in the aggregate a run of the fix script produces, an observation of a
\* Public criterion whose score is null and whose value_raw is r adds r to
\* score_public
C9_NullScoreContributesRaw ==
    lastOp = "fix_zero_scores" =>
        \A k \in DOMAIN fact_indicator :
            (/\ fact_indicator[k].score = NULL
             /\ fact_indicator[k].value_raw # NULL
             /\ IsPublic(dim_indicator[k[3]]))
            => /\ <<k[1], k[2], 1>> \in DOMAIN fact_summary
               /\ fact_summary[<<k[1], k[2], 1>>].score_public =
                     LET keys == {x \in ObsOf(fact_indicator, k[1], k[2]) :
                                      IsPublic(dim_indicator[x[3]])}
                     IN SumOver(keys, [x \in keys |-> Repaired(fact_indicator[x])])

\* the SUM(CASE ...) of a partition over the observations of one
\* municipality and period, before COALESCE
RawPartitionSum(mo, p, InPartition(_)) ==
    LET rows == ObsOf(fact_indicator, mo, p)
    IN SqlSum(rows, [k \in rows |-> IF InPartition(dim_indicator[k[3]])
                                    THEN fact_indicator[k].score ELSE Some(0)])

\* C10: after a run of the score repair no observation has a null score, an
\* observation whose score and value_raw were both null has score 0, and the
\* partition sums over the observations of a municipality and period are
\* not null
C10_NoNullScoreAfterRepair ==
    lastOp = "fix_fact_indicator_scores" =>
        /\ \A k \in DOMAIN fact_indicator : fact_indicator[k].score # NULL
        /\ \A k \in backfilled :
               fact_indicator[k].value_raw = NULL => fact_indicator[k].score = Some(0)
        /\ \A k \in DOMAIN fact_indicator :
               /\ RawPartitionSum(k[1], k[2], IsPublic) # NULL
               /\ RawPartitionSum(k[1], k[2], IsClosed) # NULL
               /\ RawPartitionSum(k[1], k[2], IsPenalty) # NULL

\* C10 witness: the repair set the score of an observation without value_raw
C10_Witness ==
    /\ lastOp = "fix_fact_indicator_scores"
    /\ \E k \in backfilled :
           /\ fact_indicator[k].value_raw = NULL
           /\ fact_indicator[k].score = Some(0)

C12_AggregateOfOwnVersionOnly ==
    lastOp = "fix_zero_scores" =>
        \A s \in DOMAIN fact_summary :
            LET own == {k \in ObsOf(fact_indicator, s[1], s[2]) : k[4] = s[3]}
            IN /\ fact_summary[s].score_public =
                      ScoreSum(fact_indicator,
                               {k \in own : IsPublic(dim_indicator[k[3]])})
               /\ fact_summary[s].score_closed =
                      ScoreSum(fact_indicator,
                               {k \in own : IsClosed(dim_indicator[k[3]])})
               /\ fact_summary[s].score_penalties =
                      ScoreSum(fact_indicator,
                               {k \in own : IsPenalty(dim_indicator[k[3]])})

\* the rows of the table before any driver started
PreStore == {<<id[1], heap[id].row>> : id \in {i \in DOMAIN heap : i[2] = "boot"}}

\* the rows a complete run of the script computes
PostRows == Recalculated(fact_indicator, EnsureRatingType(dim_indicator))

PostStore == {<<s, PostRows[s]>> : s \in DOMAIN PostRows}

\* a run of the script can reach its COMMIT
RunSucceeds ==
    /\ has_rating_cols
    /\ \A s \in DOMAIN PostRows : ~SummaryOverflows(PostRows[s])

\* the table after one uninterrupted run
UninterruptedStore == IF RunSucceeds THEN PostStore ELSE PreStore

Failed(t) == sess[t].pc = "failed"

Done(t) == sess[t].pc = "done"

C14_OtherPairsWritten ==
    \A t \in Drivers :
        (Failed(t) /\ sess[t].why = "numeric_overflow")
            => \A s \in DOMAIN PostRows :
                   ~SummaryOverflows(PostRows[s])
                       => <<s, PostRows[s]>> \in VisibleStore

\* both drivers ran to their end and neither was killed or met a failure of
\* its own statements on the data
BothEnded ==
    \A t \in Drivers :
        /\ sess[t].pc \in {"done", "failed"}
        /\ sess[t].why \notin {"aborted", "undefined_column", "numeric_overflow"}

\* C15: two drivers that run concurrently for the same keys are serialized:
\* both complete, and the table ends with exactly one row per key, holding the
\* recomputed values.
C15_ConcurrentDriversBothComplete ==
    BothEnded =>
        /\ \A t \in Drivers : Done(t)
        /\ VisibleStore = PostStore
        /\ \A r1, r2 \in VisibleStore : r1[1] = r2[1] => r1 = r2

\* C16: the script runs in one transaction, so a reader sees the table either
\* as it was before the runs or completely rebuilt, never with rows deleted
\* and not yet re-inserted and never as a mixture.
C16_ReaderNeverSeesHalfRebuilt ==
    seen \in {PreStore, PostStore}

\* a reader read while a driver had deleted the rows and not yet committed
C16_Witness ==
    /\ seen = PreStore
    /\ PreStore # {}
    /\ PreStore # PostStore
    /\ \E t \in Drivers :
          /\ sess[t].pc \in {"insert", "commit"}
          /\ \E id \in DOMAIN heap : heap[id].xmax = t

\* C17: after a run was aborted mid-way every stored row is a row from before
\* the runs or a completely recomputed one, and once another run has ended the
\* table is the one an uninterrupted run leaves.
C17_AbortThenRerun ==
    (\E t \in Drivers : Failed(t) /\ sess[t].why = "aborted") =>
        /\ VisibleStore \subseteq PreStore \cup PostStore
        /\ \A u \in Drivers :
              (sess[u].pc \in {"done", "failed"} /\ sess[u].why # "aborted")
                  => VisibleStore = UninterruptedStore

\* a run was aborted after it had inserted its rows, and the next run
\* committed a table that differs from the one before the runs
C17_Witness ==
    /\ \E t \in Drivers :
          /\ Failed(t)
          /\ sess[t].why = "aborted"
          /\ \E id \in DOMAIN heap : id[2] = t
    /\ \E u \in Drivers : Done(u)
    /\ VisibleStore = PostStore
    /\ PostStore # PreStore


\* C18: a run of the score repair never raises because of the content of a
\* row: whatever the rows hold, the run completes and leaves no null score
C18_RepairNeverRaises ==
    lastOp \in {"fix_fact_indicator_scores", "fix_fact_indicator_scores_failed"} =>
        /\ lastOp = "fix_fact_indicator_scores"
        /\ \A k \in DOMAIN fact_indicator : fact_indicator[k].score # NULL

\* the two repair scripts
RepairRuns == {"fix_zero_scores", "fix_fact_indicator_scores"}

\* C19: a repair script run directly after a run of the same script leaves
\* dim_indicator and fact_indicator as the first run left them
C19_RepairIdempotent ==
    [][(lastOp \in RepairRuns /\ lastOp' = lastOp)
           => /\ dim_indicator' = dim_indicator
              /\ fact_indicator' = fact_indicator]_vars

\* C19 witness: the second of two consecutive runs of the score repair, on a
\* store in which a run has set a score to 0
C19_Witness ==
    /\ again
    /\ lastOp = "fix_fact_indicator_scores"
    /\ backfilled = {}
    /\ \E k \in DOMAIN fact_indicator :
           /\ fact_indicator[k].value_raw = NULL
           /\ fact_indicator[k].score = Some(0)

\* C20: after a run of load_official_data.sql, an observation stored for a
\* municipality, criterion and period of one of the script's rows carries
\* the score of that row
C20_ReimportSupersedes ==
    lastOp = "load_official_data" =>
        \A r \in LoadRows : \A k \in DOMAIN fact_indicator :
            (dim_mo[k[1]] = r.mo_name /\ k[2] = 1 /\ k[3] = r.code)
                => fact_indicator[k].score = Some(r.score)

\* C21: the import stores the observations of a registered criterion whose
\* classification is still unset: after a run of load_official_data.sql every
\* row of the script whose municipality and criterion are registered is a
\* stored observation, whatever the classification of the criterion
C21_UnclassifiedObservationsStored ==
    lastOp = "load_official_data" =>
        \A r \in LoadRows :
            (r.code \in DOMAIN dim_indicator /\ Unset(dim_indicator[r.code]))
                => \E k \in DOMAIN fact_indicator :
                       /\ dim_mo[k[1]] = r.mo_name
                       /\ k[2] = Period2024_01
                       /\ k[3] = r.code

\* C22: the penalty subtotal of every stored aggregate row is <= 0, and every
\* stored observation of a penalty criterion has a score that is <= 0
C22_PenaltiesNonPositive ==
    /\ \A s \in DOMAIN fact_summary : fact_summary[s].score_penalties <= 0
    /\ \A k \in DOMAIN fact_indicator :
          (/\ k[3] \in DOMAIN dim_indicator
           /\ IsPenalty(dim_indicator[k[3]])
           /\ fact_indicator[k].score # NULL)
              => Val(fact_indicator[k].score) <= 0

\* C23: the implement_official_methodology migration is additive: every
\* criterion in the catalogue before a run of the migration is in the
\* catalogue after it
C23_MigrationAdditive ==
    [][ImplementOfficialMethodology
          => DOMAIN dim_indicator \subseteq DOMAIN dim_indicator']_vars

\* C24: the implement_official_methodology migration is idempotent: a run of
\* it directly after a run of it leaves the catalogue, rows and columns, as
\* the first run left it
C24_MigrationIdempotent ==
    [][(lastOp = "implement_official_methodology"
        /\ ImplementOfficialMethodology)
          => /\ dim_indicator' = dim_indicator
             /\ has_rating_cols' = has_rating_cols]_vars

\* the migration has run twice in a row and the second run committed
C24_Witness ==
    /\ lastOp = "implement_official_methodology"
    /\ again
    /\ has_rating_cols
    /\ DOMAIN dim_indicator = OfficialCodes

\* C25: in the catalogue the migration creates, the point maxima of the
\* PUBLICHNYJ criteria sum to 31 and those of the ZAKRYTYJ criteria to 35
C25_MaxPointsSums ==
    dim_indicator = OfficialRowsAll =>
        /\ Cardinality({c \in DOMAIN dim_indicator : IsPublic(dim_indicator[c])}) = 9
        /\ Cardinality({c \in DOMAIN dim_indicator : IsClosed(dim_indicator[c])}) = 8
        /\ SumOver({c \in DOMAIN dim_indicator : IsPublic(dim_indicator[c])},
                   max_points) = 31
        /\ SumOver({c \in DOMAIN dim_indicator : IsClosed(dim_indicator[c])},
                   max_points) = 35

\* C26: a recompute leaves every aggregate row outside its scope unchanged:
\* a stored row whose period or version the run does not recompute (for the
\* fix script: a row that is not of version 1 or whose municipality and
\* period have no observation to aggregate; for the fill scripts: a row that
\* is not of period 2024-01 and version v1.0) is still stored after the run
\* with the same values
C26_OutOfScopeRowsUnchanged ==
    [][\A s \in DOMAIN fact_summary :
          \/ lastOp' \notin AggregationRuns
          \/ /\ lastOp' = "fix_zero_scores"
             /\ s[3] = VersionV1_0
             /\ <<s[1], s[2]>> \in AggregatedGroups(fact_indicator, dim_indicator)
          \/ /\ lastOp' \in {"fill_rating_data", "fill_rating_data_compact"}
             /\ s[2] = Period2024_01
             /\ s[3] = VersionV1_0
          \/ /\ s \in DOMAIN fact_summary'
             /\ fact_summary'[s] = fact_summary[s]]_vars

\* the code starts with pub_, closed_ or pen_, underscore included
FollowsConvention(c) ==
    \E lit \in {<<"p","u","b","_">>, <<"c","l","o","s","e","d","_">>,
                 <<"p","e","n","_">>} :
        Len(c) > Len(lit) /\ SubSeq(c, 1, Len(lit)) = lit

MapData == {[key |-> s, zone |-> fact_summary[s].zone] : s \in DOMAIN fact_summary}

\* C28: every zone value stored in fact_summary is one the read side
\* recognises: it is 'green', 'yellow' or 'red', getZoneLabel gives it a zone
\* label, and the row is in exactly one zone group of the map page
C28_StoredZoneRecognised ==
    \A d \in MapData :
        /\ d.zone \in {"green", "yellow", "red"}
        /\ getZoneLabel(d.zone) # "Net dannyh"
        /\ Cardinality({z \in DOMAIN zones(MapData) : d \in zones(MapData)[z]}) = 1

\* all requests of RatingPage have been answered and the page shows its table
Settled ==
    /\ RatingPage # <<>>
    /\ ~\E r \in network : r.to = "RatingPage"
    /\ Rendered(RatingPage)

\* C29: once all requests have settled the rating view shows the response to
\* the most recently issued request, the one for the current period, sort
\* and page; a late response to an older request does not replace it
C29_ViewShowsLatestRequest ==
    Settled => RatingPage.ratingData.of = Some(Params(RatingPage))

\* C30: the current page number of the rating table is always >= 1, in
\* RatingPage and in RatingTable, and a sort change sets it to 1
C30_PageNumberAtLeastOne ==
    /\ [](RatingPage # <<>> =>
             (RatingPage.currentPage >= 1 /\ RatingTable.page >= 1))
    /\ [][(RatingPage # <<>> /\ RatingPage'.sort # RatingPage.sort)
             => RatingPage'.currentPage = 1]_vars

\* the sort was changed while page 2 was shown, and the table went to page 2
\* and back
C30_Witness ==
    /\ RatingPage # <<>>
    /\ RatingPage.sort # "score_total"
    /\ RatingPage.currentPage = 1
    /\ RatingPage.ratingData.of # NULL
    /\ Val(RatingPage.ratingData.of).page = 2
    /\ Val(RatingPage.ratingData.of).sort = "score_total"
    /\ RatingTable.page = 1
    /\ RatingTable.items.of # NULL
    /\ Val(RatingTable.items.of).page = 2

====
